---- MODULE Spec2Model ----
(***************************************************************************)
(* FireCalcDash: the projection engine calculateFire                       *)
(* (lib/fire-calculations.ts) as a state machine.  One behaviour is a run  *)
(* of calculateFire on an input record, one step per iteration of its      *)
(* projection loop, optionally followed by a second run that the           *)
(* presentation layer starts after the contribution inputs were edited.    *)
(*                                                                         *)
(* Numbers.  The engine computes in IEEE-754 doubles.  Every amount of the *)
(* model is an integer count of 1/Ticks dollars, and the inputs are chosen *)
(* so that every rate factor is a power of two (rates -50, 0 and 100       *)
(* percent; withdrawal rates 50 and 100 percent) and every product and     *)
(* quotient is a whole number of ticks: on these inputs double arithmetic  *)
(* is exact, and the integer arithmetic below computes the same values.    *)
(* The ghost variable exact records that no quotient had a remainder.      *)
(*                                                                         *)
(* Around the engine.  SpecComponent is the FireCalculator component       *)
(* (components/fire-calculator.tsx) with the scenario list it keeps in     *)
(* localStorage: mounting, editing an input, saving, loading and deleting  *)
(* a scenario, and the CSV export of a finished projection.  SpecServer is *)
(* the HTTP scenario store: the routes of server/routes.ts over the        *)
(* MemStorage of server/storage.ts.  The three specifications share the    *)
(* variables; each leaves the others' variables as they are.               *)
(***************************************************************************)
EXTENDS Integers, Sequences, FiniteSets, TLC

VARIABLES
    inputs,              \* the FireInputs record of the current call
    pc,                  \* "idle": not yet called; "loop": at the loop test; "done": returned
    clock,               \* the wall-clock calendar year, new Date().getFullYear()
    startYear,           \* const startYear
    year,                \* the loop counter
    age,                 \* let age
    currentInvestments,  \* let currentInvestments (unrounded running balance)
    fireAchieved,        \* let fireAchieved
    achievableAge,       \* let achievableAge
    projectionData,      \* const projectionData (the rows pushed so far)
    result,              \* <<>> until the call returns, then <<the returned record>>
    unrounded,           \* ghost: per row, the unrounded values it was shaped from
    assigned,            \* ghost: number of loop iterations that assigned achievableAge
    exact,               \* ghost: every division so far was exact
    ref,                 \* ghost: <<>> or <<[inputs, startYear, result]>> of the earlier run
    \* FireCalculator, the component around the engine
    mounted,             \* the effect that loads the stored scenarios has run
    scenarios,           \* const [scenarios, setScenarios]
    isLoading,           \* const [isLoading, setIsLoading]
    toast,               \* <<>> or <<the last toast>>
    csv,                 \* <<>> or <<the lines of the file exportToCSV built last>>
    localStorage,        \* <<>> or <<the item stored under SCENARIOS_KEY, parsed>>
    issued,              \* number of identifiers generateId has returned
    shown,               \* ghost: per scenario id, the inputs and the result at its save
    \* the HTTP scenario store
    store,               \* MemStorage.scenarios, a Map from id to Scenario
    uuids,               \* number of identifiers randomUUID has returned
    response,            \* <<>> or <<the last request with its answer>>
    removed              \* ghost: the ids whose DELETE was answered 204

engineVars == <<inputs, pc, clock, startYear, year, age, currentInvestments, fireAchieved,
                achievableAge, projectionData, result, unrounded, assigned, exact, ref>>

componentVars == <<mounted, scenarios, isLoading, toast, csv, localStorage, issued, shown>>

serverVars == <<store, uuids, response, removed>>

vars == <<engineVars, componentVars, serverVars>>

----------------------------------------------------------------------------
(* Bounds of the exploration *)

TickBits == 6
MaxRerunRows == 3
FirstYear == 2026

(* Constants of the program *)

MaxYears == 40
MaxAge == 100
RoundTo == 1000
MonthsPerYear == 12

\* one dollar is Ticks units of the model
Ticks == 2 ^ TickBits

Dollars(d) == d * Ticks

\* the calendar years the clock passes through
Years == {FirstYear, FirstYear + 1}

----------------------------------------------------------------------------
(* Arithmetic helpers *)

RECURSIVE GCD(_, _)
GCD(a, b) == IF b = 0 THEN a ELSE GCD(b, a % b)

RECURSIVE IntPow(_, _)
IntPow(b, n) == IF n = 0 THEN 1 ELSE b * IntPow(b, n - 1)

\* p / 100 as a reduced fraction <<numerator, denominator>>
Percent(p) == LET g == GCD(IF p < 0 THEN -p ELSE p, 100)
              IN  <<p \div g, 100 \div g>>

\* 1 + p / 100 as a reduced fraction
OnePlus(p) == Percent(100 + p)

\* x * Math.pow(f, n) for the fraction f; n may be negative
TimesPow(x, f, n) ==
    IF n >= 0 THEN (x * IntPow(f[1], n)) \div IntPow(f[2], n)
              ELSE (x * IntPow(f[2], -n)) \div IntPow(f[1], -n)

\* x / Math.pow(f, n), n >= 0
OverPow(x, f, n) == (x * IntPow(f[2], n)) \div IntPow(f[1], n)

ExactTimesPow(x, f, n) ==
    IF n >= 0 THEN (x * IntPow(f[1], n)) % IntPow(f[2], n) = 0
              ELSE (x * IntPow(f[2], -n)) % IntPow(f[1], -n) = 0

ExactOverPow(x, f, n) == (x * IntPow(f[2], n)) % IntPow(f[1], n) = 0

----------------------------------------------------------------------------
(* The input records explored.  Amounts are in dollars here and are turned *)
(* into ticks where the engine reads them.                                 *)

Modes == {"fixed", "salaryPercent"}

\* <<monthlyContributions, adjustContributionsForInflation>>
FixedChoices == {<<0, FALSE>>, <<125, FALSE>>, <<125, TRUE>>}

\* <<annualSalary, salaryContributionPercent, salaryAnnualRaisePercent>>
SalaryChoices == {<<1000, 100, 0>>, <<2000, 50, 100>>}

LongAges == {60, 61, 62}
ShortAges == {98, 100, 101}

\* <<annualExpenses, withdrawalRate>>
TargetChoices == {<<2400, 50>>, <<2400, 100>>}

Returns == {-50, 0, 100}
Inflations == {0, 100}
Startings == {0, 4600}

Windfall(amount, ageReceived) == [amount |-> amount, ageReceived |-> ageReceived]

EarlyWindfall == <<Windfall(3000, 99)>>

\* a windfall below half of the rounding unit
SmallWindfall == <<Windfall(400, 99)>>

WindfallChoices ==
    { <<>>,
      <<Windfall(3000, 100)>>,
      EarlyWindfall,
      SmallWindfall,
      <<Windfall(500, 99), Windfall(2000, 99)>> }

\* Runs of forty years keep to rates whose factor is 1, so that the amounts
\* stay exact and within the range of the integers.  The windfall that is
\* received before the last year of a run is explored on these runs.
InDomain(in) ==
    \/ /\ in.currentAge \in ShortAges
       /\ in.windfalls \notin {EarlyWindfall, SmallWindfall}
    \/ /\ in.currentAge \in LongAges
       /\ in.annualReturn \in {0}
       /\ in.inflationRate = 0
       /\ in.salaryAnnualRaisePercent = 0
       /\ in.startingInvestments = 0
       /\ Len(in.windfalls) <= 1

AllInputs ==
    { [ startingInvestments |-> s,
        monthlyContributions |-> f[1],
        contributionMode |-> m,
        annualSalary |-> sal[1],
        salaryContributionPercent |-> sal[2],
        salaryAnnualRaisePercent |-> sal[3],
        currentAge |-> a,
        annualExpenses |-> t[1],
        annualReturn |-> r,
        inflationRate |-> i,
        withdrawalRate |-> t[2],
        windfalls |-> w,
        adjustContributionsForInflation |-> f[2] ] :
      s \in Startings, f \in FixedChoices, m \in Modes, sal \in SalaryChoices,
      a \in LongAges \cup ShortAges, t \in TargetChoices, r \in Returns,
      i \in Inflations, w \in WindfallChoices }

Inputs == { in \in AllInputs : InDomain(in) }

\* The values updateInput may give to each contribution field
FieldValues ==
    [ monthlyContributions |-> {f[1] : f \in FixedChoices},
      adjustContributionsForInflation |-> {f[2] : f \in FixedChoices},
      annualSalary |-> {sal[1] : sal \in SalaryChoices},
      salaryContributionPercent |-> {sal[2] : sal \in SalaryChoices},
      salaryAnnualRaisePercent |-> {sal[3] : sal \in SalaryChoices} ]

\* The contribution fields that belong to the other contribution mode
OtherModeFields(mode) ==
    IF mode = "salaryPercent"
    THEN {"monthlyContributions", "adjustContributionsForInflation"}
    ELSE {"annualSalary", "salaryContributionPercent", "salaryAnnualRaisePercent"}

----------------------------------------------------------------------------
(* calculateFire: the values of one call *)

\* The IEEE value Infinity, which a division of a positive number by 0
\* gives: above every finite amount of the exploration.  Infinity times a
\* positive factor, Infinity rounded and Infinity divided by 1000 are
\* Infinity, and no finite balance is >= Infinity.
Infinity == 2 ^ 30

\* mutant (C9): ties rounded away from zero
Round_HalfAway(v) ==
    LET unit == RoundTo * Ticks
    IN  IF v >= 0 THEN ((2 * v + unit) \div (2 * unit)) * unit
                  ELSE -(((2 * (-v) + unit) \div (2 * unit)) * unit)

\* mutant (C10): always up to the next thousand
Round_Up(v) ==
    LET unit == RoundTo * Ticks
    IN  (v \div unit) * unit + unit

\* Math.round(v / 1000) * 1000: Math.round rounds to the nearest integer and
\* a tie to the larger one, floor(x + 1/2)
Round(v) ==
    LET unit == RoundTo * Ticks
    IN  IF v = Infinity THEN Infinity
        ELSE ((2 * v + unit) \div (2 * unit)) * unit

\* mutant (C16): the target is 25 times the expenses, the 4 % rule, whatever
\* the withdrawal rate
realFireNumber_FourPercentRule == Dollars(inputs.annualExpenses) * 25

\* mutant (C18): a withdrawal rate of 0 is guarded and gives the target 0
realFireNumber_ZeroGuarded ==
    LET f == Percent(inputs.withdrawalRate)
    IN  IF f[1] = 0 THEN 0
        ELSE (Dollars(inputs.annualExpenses) * f[2]) \div f[1]

\* const realFireNumber = annualExpenses / (withdrawalRate / 100); the
\* expenses are positive, so that the quotient by 0 is Infinity
realFireNumber ==
    LET f == Percent(inputs.withdrawalRate)
    IN  IF f[1] = 0 THEN Infinity
        ELSE (Dollars(inputs.annualExpenses) * f[2]) \div f[1]

\* mutant (C2): the year bound off by one
LoopTest_OneMore == year <= MaxYears /\ age <= MaxAge

\* mutant (C6): the loop stops once FIRE is achieved, as the source comment
\* above the loop says
LoopTest_UntilFire == year < MaxYears /\ age <= MaxAge /\ ~fireAchieved

\* mutant (C28): the age bound is exclusive
LoopTest_AgeBelow == year < MaxYears /\ age < MaxAge

\* the loop test: year < 40 && age <= 100
LoopTest == year < MaxYears /\ age <= MaxAge

\* const fireTarget = realFireNumber * Math.pow(1 + inflationRate / 100, yearsFromNow)
fireTarget ==
    IF realFireNumber = Infinity THEN Infinity
    ELSE TimesPow(realFireNumber, OnePlus(inputs.inflationRate), year)

\* mutant (C7): the salary branch adds the fixed monthly contributions too
annualContribution_Both ==
    LET baseAnnualContribution == Dollars(inputs.monthlyContributions) * MonthsPerYear
        fixedPart == IF inputs.adjustContributionsForInflation
                     THEN TimesPow(baseAnnualContribution, OnePlus(inputs.inflationRate), year)
                     ELSE baseAnnualContribution
        salaryThisYear ==
            TimesPow(Dollars(inputs.annualSalary),
                     OnePlus(inputs.salaryAnnualRaisePercent), year)
        f == Percent(inputs.salaryContributionPercent)
    IN  IF inputs.contributionMode = "salaryPercent"
        THEN (salaryThisYear * f[1]) \div f[2] + fixedPart
        ELSE fixedPart

\* let annualContribution, by contributionMode
annualContribution ==
    IF inputs.contributionMode = "salaryPercent"
    THEN LET salaryThisYear ==
                 TimesPow(Dollars(inputs.annualSalary),
                          OnePlus(inputs.salaryAnnualRaisePercent), year)
             f == Percent(inputs.salaryContributionPercent)
         IN  (salaryThisYear * f[1]) \div f[2]
    ELSE LET baseAnnualContribution == Dollars(inputs.monthlyContributions) * MonthsPerYear
         IN  IF inputs.adjustContributionsForInflation
             THEN TimesPow(baseAnnualContribution, OnePlus(inputs.inflationRate), year)
             ELSE baseAnnualContribution

\* windfalls.find((w) => w.ageReceived === age): <<>> when none, else <<the first match>>
RECURSIVE Find(_, _)
Find(ws, a) ==
    IF ws = <<>> THEN <<>>
    ELSE IF Head(ws).ageReceived = a THEN <<Head(ws)>>
    ELSE Find(Tail(ws), a)

windfall == Find(inputs.windfalls, age)

\* the sum of the amounts of the windfalls received at age a
RECURSIVE SumAt(_, _)
SumAt(ws, a) ==
    IF ws = <<>> THEN 0
    ELSE (IF Head(ws).ageReceived = a THEN Head(ws).amount ELSE 0) + SumAt(Tail(ws), a)

\* mutant (C13): every windfall of the age is added
windfallAmount_All == Dollars(SumAt(inputs.windfalls, age))

\* const windfallAmount = windfall ? windfall.amount : 0
windfallAmount == IF windfall # <<>> THEN Dollars(windfall[1].amount) ELSE 0

\* mutant (C15): the windfall is reported in the row and not added to the
\* balance
preGrowthValue_NoWindfall == currentInvestments + annualContribution

\* const preGrowthValue: the balance after the contribution and the windfall
preGrowthValue == currentInvestments + annualContribution + windfallAmount

\* mutant (C12): the growth is applied to the balance the year started from,
\* the contribution and the windfall are added after it
GrownValue_BalanceOnly ==
    TimesPow(currentInvestments, OnePlus(inputs.annualReturn), 1)
        + annualContribution + windfallAmount

\* currentInvestments *= 1 + annualReturn / 100
GrownValue == TimesPow(preGrowthValue, OnePlus(inputs.annualReturn), 1)

investmentGrowth == GrownValue - preGrowthValue

potentialWithdrawalNominal ==
    LET f == Percent(inputs.withdrawalRate)
    IN  (GrownValue * f[1]) \div f[2]

\* mutant (C21): the real withdrawal is the nominal one, not deflated
potentialWithdrawalReal_NotDeflated == potentialWithdrawalNominal

potentialWithdrawalReal ==
    OverPow(potentialWithdrawalNominal, OnePlus(inputs.inflationRate), year)

\* mutant (C4): the assignment is not guarded by !fireAchieved
FireReached_Again == GrownValue >= fireTarget

\* mutant (C5): the FIRE test compares the rounded figures of the row
FireReached_Rounded == Round(GrownValue) >= Round(fireTarget) /\ ~fireAchieved

\* if (currentInvestments >= fireTarget && !fireAchieved)
FireReached == GrownValue >= fireTarget /\ ~fireAchieved

\* mutant (C1): the status re-tests the balance instead of reusing the flag
Status_Retest ==
    IF GrownValue >= fireTarget THEN "fire"
    ELSE IF windfall # <<>> THEN "windfall"
    ELSE "short"

\* mutant (C14): the windfall branch is taken after the FIRE check and
\* overwrites its status
Status_WindfallLast ==
    IF windfall # <<>> THEN "windfall"
    ELSE IF FireReached \/ fireAchieved THEN "fire"
    ELSE "short"

\* the row's status after the windfall branch and the FIRE check
Status ==
    IF FireReached THEN "fire"
    ELSE IF fireAchieved THEN "fire"
    ELSE IF windfall # <<>> THEN "windfall"
    ELSE "short"

\* mutant (C20): the calendar year is read again for every row
Row_YearReadAgain ==
    [ age |-> age,
      year |-> clock + year,
      investmentValue |-> Round(GrownValue),
      annualContribution |-> Round(annualContribution),
      potentialWithdrawalNominal |-> Round(potentialWithdrawalNominal),
      potentialWithdrawalReal |-> Round(potentialWithdrawalReal),
      fireTarget |-> Round(fireTarget),
      windfallAmount |-> IF windfallAmount > 0 THEN <<Round(windfallAmount)>> ELSE <<>>,
      investmentGrowth |-> Round(investmentGrowth),
      status |-> Status ]

\* mutant (C22): the row's contribution includes the windfall of the year
Row_ContributionWithWindfall ==
    [ age |-> age,
      year |-> startYear + year,
      investmentValue |-> Round(GrownValue),
      annualContribution |-> Round(annualContribution + windfallAmount),
      potentialWithdrawalNominal |-> Round(potentialWithdrawalNominal),
      potentialWithdrawalReal |-> Round(potentialWithdrawalReal),
      fireTarget |-> Round(fireTarget),
      windfallAmount |-> IF windfallAmount > 0 THEN <<Round(windfallAmount)>> ELSE <<>>,
      investmentGrowth |-> Round(investmentGrowth),
      status |-> Status ]

\* the record pushed onto projectionData
Row ==
    [ age |-> age,
      year |-> startYear + year,
      investmentValue |-> Round(GrownValue),
      annualContribution |-> Round(annualContribution),
      potentialWithdrawalNominal |-> Round(potentialWithdrawalNominal),
      potentialWithdrawalReal |-> Round(potentialWithdrawalReal),
      fireTarget |-> Round(fireTarget),
      windfallAmount |-> IF windfallAmount > 0 THEN <<Round(windfallAmount)>> ELSE <<>>,
      investmentGrowth |-> Round(investmentGrowth),
      status |-> Status ]

\* ghost: the unrounded values of the same iteration
UnroundedRow ==
    [ investmentValue |-> GrownValue,
      annualContribution |-> annualContribution,
      potentialWithdrawalNominal |-> potentialWithdrawalNominal,
      potentialWithdrawalReal |-> potentialWithdrawalReal,
      fireTarget |-> fireTarget,
      windfallAmount |-> windfallAmount,
      investmentGrowth |-> investmentGrowth,
      preGrowthValue |-> preGrowthValue ]

\* ghost: the divisions of one iteration leave no remainder
IterationExact ==
    LET wr == Percent(inputs.withdrawalRate)
        sp == Percent(inputs.salaryContributionPercent)
    IN  /\ realFireNumber # Infinity =>
               ExactTimesPow(realFireNumber, OnePlus(inputs.inflationRate), year)
        /\ ExactTimesPow(preGrowthValue, OnePlus(inputs.annualReturn), 1)
        /\ (GrownValue * wr[1]) % wr[2] = 0
        /\ ExactOverPow(potentialWithdrawalNominal, OnePlus(inputs.inflationRate), year)
        /\ inputs.contributionMode = "salaryPercent" =>
              (TimesPow(Dollars(inputs.annualSalary),
                        OnePlus(inputs.salaryAnnualRaisePercent), year) * sp[1]) % sp[2] = 0

\* mutant (C8): fireAchieved lives outside the function and is not reset
LocalsAtEntry_Retained(in, now) ==
    [ currentInvestments |-> Dollars(in.startingInvestments),
      age |-> in.currentAge,
      fireAchieved |-> fireAchieved,
      achievableAge |-> 0,
      startYear |-> now,
      projectionData |-> <<>> ]

\* the locals as lines 42-47 leave them
LocalsAtEntry(in, now) ==
    [ currentInvestments |-> Dollars(in.startingInvestments),
      age |-> in.currentAge,
      fireAchieved |-> FALSE,
      achievableAge |-> 0,
      startYear |-> now,
      projectionData |-> <<>> ]

\* mutant (C3): the last projected age taken as age
FinalAchievableAge_NoStepBack == IF ~fireAchieved THEN age ELSE achievableAge

\* achievableAge after the loop: if (!fireAchieved) achievableAge = age - 1
FinalAchievableAge == IF ~fireAchieved THEN age - 1 ELSE achievableAge

\* mutant (C17): the years are counted up to the age the loop stopped at
yearsToRetirement_LoopAge == age - inputs.currentAge

yearsToRetirement == FinalAchievableAge - inputs.currentAge

\* mutant (C27): the target is inflated through the year of retirement too
nominalFireNumber_OneMoreYear ==
    IF realFireNumber = Infinity THEN Infinity
    ELSE TimesPow(realFireNumber, OnePlus(inputs.inflationRate), yearsToRetirement + 1)

nominalFireNumber ==
    IF realFireNumber = Infinity THEN Infinity
    ELSE TimesPow(realFireNumber, OnePlus(inputs.inflationRate), yearsToRetirement)

\* the returned FireCalculationResult
Returned ==
    [ realFireNumber |-> Round(realFireNumber),
      nominalFireNumber |-> Round(nominalFireNumber),
      achievableAge |-> FinalAchievableAge,
      yearsToRetirement |-> yearsToRetirement,
      projectionData |-> projectionData ]

----------------------------------------------------------------------------
(* The state machine *)

\* the component before its first effect has run; no scenario is stored
ComponentInit ==
    /\ mounted = FALSE
    /\ scenarios = <<>>
    /\ isLoading = FALSE
    /\ toast = <<>>
    /\ csv = <<>>
    /\ localStorage = <<>>
    /\ issued = 0
    /\ shown = <<>>

\* new MemStorage(): an empty Map
ServerInit ==
    /\ store = <<>>
    /\ uuids = 0
    /\ response = <<>>
    /\ removed = {}

Init ==
    /\ ComponentInit
    /\ ServerInit
    /\ inputs \in Inputs
    /\ pc = "idle"
    /\ clock = FirstYear
    /\ startYear = 0
    /\ year = 0
    /\ age = 0
    /\ currentInvestments = 0
    /\ fireAchieved = FALSE
    /\ achievableAge = 0
    /\ projectionData = <<>>
    /\ result = <<>>
    /\ unrounded = <<>>
    /\ assigned = 0
    /\ exact = TRUE
    /\ ref = <<>>

\* useMemo(() => calculateFire(inputs), [inputs]): the call, up to the loop
Invoke ==
    /\ pc = "idle"
    /\ LET l == LocalsAtEntry(inputs, clock)
       IN  /\ currentInvestments' = l.currentInvestments
           /\ age' = l.age
           /\ fireAchieved' = l.fireAchieved
           /\ achievableAge' = l.achievableAge
           /\ startYear' = l.startYear
           /\ projectionData' = l.projectionData
    /\ year' = 0
    /\ pc' = "loop"
    /\ result' = <<>>
    /\ unrounded' = <<>>
    /\ assigned' = 0
    /\ exact' = (Percent(inputs.withdrawalRate)[1] # 0 =>
                    (Dollars(inputs.annualExpenses) * Percent(inputs.withdrawalRate)[2])
                        % Percent(inputs.withdrawalRate)[1] = 0)
    /\ UNCHANGED <<componentVars, serverVars>>
    /\ UNCHANGED <<inputs, clock, ref>>

\* mutant (C11): the balance shown in the row is the balance carried on
ProjectYear_CarryRounded ==
    /\ pc = "loop"
    /\ LoopTest
    /\ currentInvestments' = Round(GrownValue)
    /\ fireAchieved' = (fireAchieved \/ FireReached)
    /\ achievableAge' = IF FireReached THEN age ELSE achievableAge
    /\ projectionData' = Append(projectionData, Row)
    /\ age' = age + 1
    /\ year' = year + 1
    /\ unrounded' = Append(unrounded, UnroundedRow)
    /\ assigned' = IF FireReached THEN assigned + 1 ELSE assigned
    /\ exact' = (exact /\ IterationExact)
    /\ UNCHANGED <<componentVars, serverVars>>
    /\ UNCHANGED <<inputs, pc, clock, startYear, result, ref>>

\* mutant (C19): the windfall applied is removed from the input's list
ProjectYear_ConsumeWindfall ==
    /\ pc = "loop"
    /\ LoopTest
    /\ currentInvestments' = GrownValue
    /\ fireAchieved' = (fireAchieved \/ FireReached)
    /\ achievableAge' = IF FireReached THEN age ELSE achievableAge
    /\ projectionData' = Append(projectionData, Row)
    /\ age' = age + 1
    /\ year' = year + 1
    /\ unrounded' = Append(unrounded, UnroundedRow)
    /\ assigned' = IF FireReached THEN assigned + 1 ELSE assigned
    /\ exact' = (exact /\ IterationExact)
    /\ inputs' = [inputs EXCEPT !.windfalls =
                      SelectSeq(inputs.windfalls, LAMBDA w : <<w>> # windfall)]
    /\ UNCHANGED <<componentVars, serverVars>>
    /\ UNCHANGED <<pc, clock, startYear, result, ref>>

\* one iteration of the projection loop
ProjectYear ==
    /\ pc = "loop"
    /\ LoopTest
    /\ currentInvestments' = GrownValue
    /\ fireAchieved' = (fireAchieved \/ FireReached)
    /\ achievableAge' = IF FireReached THEN age ELSE achievableAge
    /\ projectionData' = Append(projectionData, Row)
    /\ age' = age + 1
    /\ year' = year + 1
    /\ unrounded' = Append(unrounded, UnroundedRow)
    /\ assigned' = IF FireReached THEN assigned + 1 ELSE assigned
    /\ exact' = (exact /\ IterationExact)
    /\ UNCHANGED <<componentVars, serverVars>>
    /\ UNCHANGED <<inputs, pc, clock, startYear, result, ref>>

\* the loop test fails: the summary is computed and the result returned
Return ==
    /\ pc = "loop"
    /\ ~LoopTest
    /\ achievableAge' = FinalAchievableAge
    /\ result' = <<Returned>>
    /\ pc' = "done"
    /\ exact' = (exact /\ (realFireNumber # Infinity =>
                               ExactTimesPow(realFireNumber, OnePlus(inputs.inflationRate),
                                             yearsToRetirement)))
    /\ UNCHANGED <<componentVars, serverVars>>
    /\ UNCHANGED <<inputs, clock, startYear, year, age, currentInvestments, fireAchieved,
                   projectionData, unrounded, assigned, ref>>

\* updateInput(field, value) between two runs: a new input record, equal to
\* the old one when value is the field's value already, which useMemo
\* computes again.  The first edit after a run keeps that run as the
\* reference of the comparison.  The exploration keeps
\* to edits of the fields of the other contribution mode: the runs compared
\* agree on every other field.
UpdateInput(field, value) ==
    /\ \/ pc = "done" /\ ref = <<>> /\ Len(projectionData) <= MaxRerunRows
       \/ pc = "idle" /\ ref # <<>>
    /\ field \in OtherModeFields(inputs.contributionMode)
    /\ inputs' = [inputs EXCEPT ![field] = value]
    /\ InDomain(inputs')
    /\ pc' = "idle"
    /\ ref' = IF pc = "done"
              THEN <<[inputs |-> inputs, startYear |-> startYear, result |-> result[1]]>>
              ELSE ref
    /\ UNCHANGED <<componentVars, serverVars>>
    /\ UNCHANGED <<clock, startYear, year, age, currentInvestments, fireAchieved,
                   achievableAge, projectionData, result, unrounded, assigned, exact>>

\* a new calendar year begins
NewYear ==
    /\ clock + 1 \in Years
    /\ clock' = clock + 1
    /\ UNCHANGED <<componentVars, serverVars>>
    /\ UNCHANGED <<inputs, pc, startYear, year, age, currentInvestments, fireAchieved,
                   achievableAge, projectionData, result, unrounded, assigned, exact, ref>>

Next ==
    \/ Invoke
    \/ ProjectYear
    \/ Return
    \/ \E field \in DOMAIN FieldValues : \E value \in FieldValues[field] :
          UpdateInput(field, value)
    \/ NewYear

Spec == Init /\ [][Next]_vars

\* The input records with a withdrawal rate of 0, for the ages at which a
\* year is simulated
ZeroRateInputs ==
    { [in EXCEPT !.withdrawalRate = 0] : in \in {i \in Inputs : i.currentAge <= MaxAge} }

InitZeroRate ==
    /\ ComponentInit
    /\ ServerInit
    /\ inputs \in ZeroRateInputs
    /\ pc = "idle"
    /\ clock = FirstYear
    /\ startYear = 0
    /\ year = 0
    /\ age = 0
    /\ currentInvestments = 0
    /\ fireAchieved = FALSE
    /\ achievableAge = 0
    /\ projectionData = <<>>
    /\ result = <<>>
    /\ unrounded = <<>>
    /\ assigned = 0
    /\ exact = TRUE
    /\ ref = <<>>

\* the same program, called with a withdrawal rate of 0
SpecZeroRate == InitZeroRate /\ [][Next]_vars

\* the integer arithmetic is the engine's arithmetic: no division is inexact
ExactArithmetic == exact

----------------------------------------------------------------------------
(* FireCalculator: the component that holds the inputs, shows the result   *)
(* of calculateFire, exports it and keeps named scenarios in localStorage. *)
(* Its handlers run between two renders, when the result of the current    *)
(* inputs has been computed (pc = "done").                                 *)

\* the identifiers generateId returns, in the order it returns them
ScenarioIds == {1, 2}

ScenarioNames == {"plan"}

\* the inputs the component starts from, and the values its fields are
\* edited to
ComponentInputs ==
    { in \in Inputs :
        /\ in.currentAge = 98
        /\ in.startingInvestments = 4600
        /\ in.contributionMode = "fixed"
        /\ in.monthlyContributions = 125
        /\ in.adjustContributionsForInflation
        /\ <<in.annualSalary, in.salaryContributionPercent>> = <<2000, 50>>
        /\ in.annualExpenses = 2400 /\ in.withdrawalRate = 50
        /\ in.annualReturn = -50
        /\ in.inflationRate = 100
        /\ Len(in.windfalls) = 2 }

EditValues == [ annualReturn |-> {-50, 100} ]

\* the names of the thirteen input fields
InputFields ==
    {"startingInvestments", "monthlyContributions", "contributionMode", "annualSalary",
     "salaryContributionPercent", "salaryAnnualRaisePercent", "currentAge",
     "annualExpenses", "annualReturn", "inflationRate", "withdrawalRate", "windfalls",
     "adjustContributionsForInflation"}

\* a scenario stored in an earlier session
EarlierScenario ==
    LET in == CHOOSE i \in ComponentInputs : TRUE
    IN  [ f \in InputFields \cup {"name", "id", "createdAt"} |->
            IF f = "name" THEN "old"
            ELSE IF f = "id" THEN 0
            ELSE IF f = "createdAt" THEN FirstYear - 1
            ELSE in[f] ]

\* JSON.parse(JSON.stringify(list)): every scenario keeps its fields; a
\* number that is not finite comes back as null
NumberFields ==
    {"startingInvestments", "monthlyContributions", "annualSalary",
     "salaryContributionPercent", "salaryAnnualRaisePercent", "currentAge",
     "annualExpenses", "annualReturn", "inflationRate", "withdrawalRate"}

StringifyParse(list) ==
    [ i \in DOMAIN list |->
        [ f \in DOMAIN list[i] |->
            IF f \in NumberFields /\ list[i][f] = Infinity THEN "null"
            ELSE list[i][f] ] ]

\* localStorageService.getScenarios(): the parsed item, [] when there is none
getScenarios == IF localStorage = <<>> THEN <<>> ELSE localStorage[1]

\* generateId(): an identifier not returned before
generateId == issued + 1

\* const scenarioToSave = { name, ...inputs, adjustContributionsForInflation }
scenarioToSave(name) ==
    [ f \in InputFields \cup {"name"} |-> IF f = "name" THEN name ELSE inputs[f] ]

\* const newScenario = { ...scenario, id: generateId(), createdAt: now }
newScenario(name) ==
    [ f \in InputFields \cup {"name", "id", "createdAt"} |->
        IF f = "id" THEN generateId
        ELSE IF f = "createdAt" THEN clock
        ELSE scenarioToSave(name)[f] ]

Toast(title, variant) == [title |-> title, variant |-> variant]

\* mutant (C25): the new scenario is put in front of the list in memory
SaveOutcome_Prepend(name, writeFails) ==
    IF writeFails
    THEN [ scenarios |-> scenarios,
           localStorage |-> localStorage,
           toast |-> <<Toast("Failed to save scenario", "destructive")>>,
           isLoading |-> FALSE,
           saved |-> FALSE ]
    ELSE [ scenarios |-> <<newScenario(name)>> \o scenarios,
           localStorage |-> <<StringifyParse(Append(getScenarios, newScenario(name)))>>,
           toast |-> <<Toast("Scenario saved successfully!", "default")>>,
           isLoading |-> FALSE,
           saved |-> TRUE ]

\* mutant (C26): setIsLoading(false) is at the end of the try block, not in
\* a finally block
SaveOutcome_NoFinally(name, writeFails) ==
    IF writeFails
    THEN [ scenarios |-> scenarios,
           localStorage |-> localStorage,
           toast |-> <<Toast("Failed to save scenario", "destructive")>>,
           isLoading |-> TRUE,
           saved |-> FALSE ]
    ELSE [ scenarios |-> Append(scenarios, newScenario(name)),
           localStorage |-> <<StringifyParse(Append(getScenarios, newScenario(name)))>>,
           toast |-> <<Toast("Scenario saved successfully!", "default")>>,
           isLoading |-> FALSE,
           saved |-> TRUE ]

\* handleSaveScenario(name), from setIsLoading(true) to the finally block:
\* saveScenario reads the stored list, appends the new scenario and writes
\* the list back; when the write throws, it throws and the handler reports
\* the failure
SaveOutcome(name, writeFails) ==
    IF writeFails
    THEN [ scenarios |-> scenarios,
           localStorage |-> localStorage,
           toast |-> <<Toast("Failed to save scenario", "destructive")>>,
           isLoading |-> FALSE,
           saved |-> FALSE ]
    ELSE [ scenarios |-> Append(scenarios, newScenario(name)),
           localStorage |-> <<StringifyParse(Append(getScenarios, newScenario(name)))>>,
           toast |-> <<Toast("Scenario saved successfully!", "default")>>,
           isLoading |-> FALSE,
           saved |-> TRUE ]

\* handleDeleteScenario(id), from setIsLoading(true) to the finally block
DeleteOutcome(id, writeFails) ==
    IF writeFails
    THEN [ scenarios |-> scenarios,
           localStorage |-> localStorage,
           toast |-> <<Toast("Failed to delete scenario", "destructive")>>,
           isLoading |-> FALSE ]
    ELSE [ scenarios |-> SelectSeq(scenarios, LAMBDA sc : sc.id # id),
           localStorage |->
               <<StringifyParse(SelectSeq(getScenarios, LAMBDA sc : sc.id # id))>>,
           toast |-> <<Toast("Scenario deleted successfully!", "default")>>,
           isLoading |-> FALSE ]

\* mutant (C24): the checkbox is not restored
LoadedInputs_AdjustLost(scenario) ==
    [ f \in InputFields |->
        IF f = "adjustContributionsForInflation" THEN FALSE
        ELSE IF f \in DOMAIN scenario THEN scenario[f]
        ELSE IF f = "contributionMode" THEN "fixed"
        ELSE 0 ]

\* the record handleLoadScenario passes to setInputs: the scenario's fields,
\* with contributionMode || "fixed" and ?? 0 for the salary fields
LoadedInputs(scenario) ==
    [ f \in InputFields |->
        IF f \in DOMAIN scenario THEN scenario[f]
        ELSE IF f = "contributionMode" THEN "fixed"
        ELSE 0 ]

\* String(n) of an integer
DigitChars == <<"0", "1", "2", "3", "4", "5", "6", "7", "8", "9">>

RECURSIVE Digits(_)
Digits(n) ==
    IF n < 10 THEN <<DigitChars[n + 1]>>
    ELSE Append(Digits(n \div 10), DigitChars[(n % 10) + 1])

NumberToString(n) == IF n < 0 THEN <<"-">> \o Digits(-n) ELSE Digits(n)

\* the number a rounded currency figure of a row is, in dollars
AsNumber(v) == v \div Ticks

\* cells.join(",")
RECURSIVE Join(_, _)
Join(cells, sep) ==
    IF Len(cells) = 0 THEN <<>>
    ELSE IF Len(cells) = 1 THEN cells[1]
    ELSE cells[1] \o <<sep>> \o Join(Tail(cells), sep)

CsvColumns ==
    <<"Age", "Year", "Investment Value", "Annual Contribution",
      "Potential Withdrawal (Nominal)", "Potential Withdrawal (Real)",
      "Investment Growth", "FIRE Target", "Status">>

\* the ten comment lines and the line of column names
CsvHeaders ==
    [i \in 1..10 |-> <<"#">>] \o <<Join([i \in DOMAIN CsvColumns |-> <<CsvColumns[i]>>], ",")>>

\* mutant (C23): the target is written before the growth, the order of the
\* row's fields
CsvRow_TargetFirst(row) ==
    Join(<< NumberToString(row.age),
            NumberToString(row.year),
            NumberToString(AsNumber(row.investmentValue)),
            NumberToString(AsNumber(row.annualContribution)),
            NumberToString(AsNumber(row.potentialWithdrawalNominal)),
            NumberToString(AsNumber(row.potentialWithdrawalReal)),
            NumberToString(AsNumber(row.fireTarget)),
            NumberToString(AsNumber(row.investmentGrowth)),
            <<row.status>> >>, ",")

\* one data line: the nine values of the row joined by commas
CsvRow(row) ==
    Join(<< NumberToString(row.age),
            NumberToString(row.year),
            NumberToString(AsNumber(row.investmentValue)),
            NumberToString(AsNumber(row.annualContribution)),
            NumberToString(AsNumber(row.potentialWithdrawalNominal)),
            NumberToString(AsNumber(row.potentialWithdrawalReal)),
            NumberToString(AsNumber(row.investmentGrowth)),
            NumberToString(AsNumber(row.fireTarget)),
            <<row.status>> >>, ",")

\* [...headers, ...csvData], the lines of the exported file
CsvLines ==
    CsvHeaders \o [k \in DOMAIN result[1].projectionData |->
                      CsvRow(result[1].projectionData[k])]

InitComponent ==
    /\ ServerInit
    /\ mounted = FALSE
    /\ scenarios = <<>>
    /\ isLoading = FALSE
    /\ toast = <<>>
    /\ csv = <<>>
    /\ localStorage \in {<<>>, <<<<EarlierScenario>>>>}
    /\ issued = 0
    /\ shown = <<>>
    /\ inputs \in ComponentInputs
    /\ pc = "idle"
    /\ clock = FirstYear
    /\ startYear = 0
    /\ year = 0
    /\ age = 0
    /\ currentInvestments = 0
    /\ fireAchieved = FALSE
    /\ achievableAge = 0
    /\ projectionData = <<>>
    /\ result = <<>>
    /\ unrounded = <<>>
    /\ assigned = 0
    /\ exact = TRUE
    /\ ref = <<>>

\* useEffect(() => setScenarios(localStorageService.getScenarios()), [])
Mount ==
    /\ pc = "done"
    /\ ~mounted
    /\ mounted' = TRUE
    /\ scenarios' = getScenarios
    /\ UNCHANGED <<isLoading, toast, csv, localStorage, issued, shown>>
    /\ UNCHANGED <<engineVars, serverVars>>

\* updateInput(field, value)
EditField(field, value) ==
    /\ pc = "done"
    /\ mounted
    /\ inputs' = [inputs EXCEPT ![field] = value]
    /\ pc' = "idle"
    /\ csv' = <<>>
    /\ UNCHANGED <<mounted, scenarios, isLoading, toast, localStorage, issued, shown>>
    /\ UNCHANGED <<clock, startYear, year, age, currentInvestments, fireAchieved,
                   achievableAge, projectionData, result, unrounded, assigned, exact, ref>>
    /\ UNCHANGED serverVars

\* handleSaveScenario(name); the write to localStorage may throw
handleSaveScenario(name, writeFails) ==
    /\ pc = "done"
    /\ mounted
    /\ generateId \in ScenarioIds
    /\ LET o == SaveOutcome(name, writeFails)
       IN  /\ scenarios' = o.scenarios
           /\ localStorage' = o.localStorage
           /\ toast' = o.toast
           /\ isLoading' = o.isLoading
           /\ shown' = IF o.saved
                       THEN [ id \in DOMAIN shown \cup {generateId} |->
                                IF id = generateId
                                THEN [ inputs |-> inputs, result |-> result[1],
                                       startYear |-> startYear ]
                                ELSE shown[id] ]
                       ELSE shown
    /\ issued' = issued + 1
    /\ UNCHANGED <<mounted, csv>>
    /\ UNCHANGED <<engineVars, serverVars>>

\* handleLoadScenario(scenarios[i])
handleLoadScenario(i) ==
    /\ pc = "done"
    /\ mounted
    /\ i \in DOMAIN scenarios
    /\ inputs' = LoadedInputs(scenarios[i])
    /\ pc' = "idle"
    /\ csv' = <<>>
    /\ toast' = <<Toast("Loaded scenario", "default")>>
    /\ UNCHANGED <<mounted, scenarios, isLoading, localStorage, issued, shown>>
    /\ UNCHANGED <<clock, startYear, year, age, currentInvestments, fireAchieved,
                   achievableAge, projectionData, result, unrounded, assigned, exact, ref>>
    /\ UNCHANGED serverVars

\* handleDeleteScenario(scenarios[i].id); the write to localStorage may throw
handleDeleteScenario(i, writeFails) ==
    /\ pc = "done"
    /\ mounted
    /\ i \in DOMAIN scenarios
    /\ LET o == DeleteOutcome(scenarios[i].id, writeFails)
       IN  /\ scenarios' = o.scenarios
           /\ localStorage' = o.localStorage
           /\ toast' = o.toast
           /\ isLoading' = o.isLoading
    /\ UNCHANGED <<mounted, csv, issued, shown>>
    /\ UNCHANGED <<engineVars, serverVars>>

\* exportToCSV(): the file built from fireResult.projectionData
exportToCSV ==
    /\ pc = "done"
    /\ mounted
    /\ csv = <<>>
    /\ csv' = <<CsvLines>>
    /\ UNCHANGED <<mounted, scenarios, isLoading, toast, localStorage, issued, shown>>
    /\ UNCHANGED <<engineVars, serverVars>>

NextComponent ==
    \/ Invoke
    \/ ProjectYear
    \/ Return
    \/ NewYear
    \/ Mount
    \/ \E field \in DOMAIN EditValues : \E value \in EditValues[field] :
          EditField(field, value)
    \/ \E name \in ScenarioNames : \E writeFails \in BOOLEAN :
          handleSaveScenario(name, writeFails)
    \/ \E i \in 1..Cardinality(ScenarioIds) + 1 : handleLoadScenario(i)
    \/ \E i \in 1..Cardinality(ScenarioIds) + 1 : \E writeFails \in BOOLEAN :
          handleDeleteScenario(i, writeFails)
    \/ exportToCSV

\* the component, from its first render on
SpecComponent == InitComponent /\ [][NextComponent]_vars

----------------------------------------------------------------------------
(* The HTTP scenario store: the routes of registerRoutes over MemStorage.   *)
(* The Map is the sequence of its entries in insertion order; an            *)
(* identifier is the number of the randomUUID call that returned it.        *)

\* the number of scenarios created in one exploration
MaxScenarios == 2

\* the ids of the requests; the last one is never returned by randomUUID
RequestIds == 1..MaxScenarios + 1

\* the keys of insertScenarioSchema: the columns without id and createdAt
SchemaKeys ==
    { "name", "startingInvestments", "monthlyContributions", "currentAge",
      "annualExpenses", "annualReturn", "inflationRate", "withdrawalRate",
      "adjustContributionsForInflation", "windfalls" }

\* the columns that are notNull and have no default
RequiredKeys ==
    { "name", "startingInvestments", "monthlyContributions", "currentAge",
      "annualExpenses" }

\* windfallSchema
ValidWindfall(w) ==
    /\ w.amount > 0
    /\ w.ageReceived >= 18
    /\ w.ageReceived <= 120

\* the refinements of insertScenarioSchema, for whole percentages
FieldValid(key, value) ==
    CASE key = "startingInvestments" -> value >= 0
      [] key = "monthlyContributions" -> value >= 0
      [] key = "currentAge" -> value >= 18 /\ value <= 100
      [] key = "annualExpenses" -> value > 0
      [] key = "annualReturn" -> value >= 0 /\ value <= 30
      [] key = "inflationRate" -> value >= 0 /\ value <= 20
      [] key = "withdrawalRate" -> value >= 1 /\ value <= 10
      [] key = "windfalls" -> \A i \in DOMAIN value : ValidWindfall(value[i])
      [] OTHER -> TRUE

\* insertScenarioSchema.parse(body) and insertScenarioSchema.partial()
\* .parse(body): <<>> for a ZodError, otherwise <<the validated data>>, the
\* known keys of the body, with the default of
\* adjustContributionsForInflation when the whole schema is parsed
Parse(body, partial) ==
    LET known == DOMAIN body \cap SchemaKeys
        filled == IF partial THEN known
                  ELSE known \cup {"adjustContributionsForInflation"}
    IN  IF /\ partial \/ RequiredKeys \subseteq DOMAIN body
           /\ \A key \in known : FieldValid(key, body[key])
        THEN << [key \in filled |->
                    IF key \in known THEN body[key] ELSE FALSE] >>
        ELSE <<>>

\* a scenario of the explored requests
FullBody ==
    [ name |-> "plan",
      startingInvestments |-> 4600,
      monthlyContributions |-> 125,
      currentAge |-> 60,
      annualExpenses |-> 2400,
      annualReturn |-> 7,
      inflationRate |-> 3,
      withdrawalRate |-> 4,
      adjustContributionsForInflation |-> TRUE,
      windfalls |-> <<[id |-> "w", amount |-> 3000, ageReceived |-> 99]>> ]

\* the bodies of POST: a whole scenario, one without the inflation flag
\* that names an id of its own, and one with an age below the minimum
PostBodies ==
    { FullBody,
      [ name |-> "lean",
        startingInvestments |-> 0,
        monthlyContributions |-> 125,
        currentAge |-> 18,
        annualExpenses |-> 2400,
        annualReturn |-> 7,
        inflationRate |-> 3,
        withdrawalRate |-> 4,
        windfalls |-> <<>>,
        id |-> MaxScenarios + 1 ],
      [FullBody EXCEPT !.currentAge = 17] }

\* the bodies of PATCH: two valid ones, of which one names an id, and one
\* with an age below the minimum
PatchBodies ==
    { [annualExpenses |-> 3000, id |-> MaxScenarios + 1],
      [adjustContributionsForInflation |-> FALSE],
      [currentAge |-> 17] }

\* the positions of the entry of an id
Entries(id) == { i \in DOMAIN store : store[i].id = id }

\* the keys of the Map
StoredIds == { store[i].id : i \in DOMAIN store }

\* MemStorage.getScenario: <<>> for undefined
getScenario(id) == SelectSeq(store, LAMBDA s : s.id = id)

\* the list with x put before the first entry that is not newer than x
RECURSIVE InsertNewestFirst(_, _)
InsertNewestFirst(x, list) ==
    IF list = <<>> THEN <<x>>
    ELSE IF Head(list).createdAt <= x.createdAt THEN <<x>> \o list
    ELSE <<Head(list)>> \o InsertNewestFirst(x, Tail(list))

\* Array.prototype.sort by createdAt, newest first; the sort is stable
RECURSIVE NewestFirst(_)
NewestFirst(list) ==
    IF list = <<>> THEN <<>>
    ELSE InsertNewestFirst(Head(list), NewestFirst(Tail(list)))

\* MemStorage.getAllScenarios
getAllScenarios == NewestFirst(store)

\* const id = randomUUID()
randomUUID == uuids + 1

\* insert.adjustContributionsForInflation ? 1 : 0
AsFlag(data) ==
    IF "adjustContributionsForInflation" \in DOMAIN data
       /\ data.adjustContributionsForInflation
    THEN 1 ELSE 0

\* MemStorage.createScenario: the scenario it stores and returns
createScenario(insertScenario) ==
    [ key \in DOMAIN insertScenario
              \cup {"adjustContributionsForInflation", "id", "createdAt"} |->
        CASE key = "id" -> randomUUID
          [] key = "createdAt" -> clock
          [] key = "adjustContributionsForInflation" -> AsFlag(insertScenario)
          [] OTHER -> insertScenario[key] ]

\* { ...existing, ...processedUpdates }
Updated(existing, updates) ==
    [ key \in DOMAIN existing \cup DOMAIN updates |->
        IF key \notin DOMAIN updates THEN existing[key]
        ELSE IF key = "adjustContributionsForInflation" THEN AsFlag(updates)
        ELSE updates[key] ]

\* mutant (C30): an id that is not stored is given a new entry
updateScenario_Upsert(id, updates) ==
    IF Entries(id) = {}
    THEN [ store |-> Append(store, Updated([id |-> id], updates)),
           scenario |-> <<Updated([id |-> id], updates)>> ]
    ELSE [ store |-> [i \in DOMAIN store |->
                         IF store[i].id = id THEN Updated(store[i], updates)
                         ELSE store[i]],
           scenario |-> <<Updated(getScenario(id)[1], updates)>> ]

\* MemStorage.updateScenario: the Map after the call and what it returns
updateScenario(id, updates) ==
    IF Entries(id) = {}
    THEN [ store |-> store, scenario |-> <<>> ]
    ELSE [ store |-> [i \in DOMAIN store |->
                         IF store[i].id = id THEN Updated(store[i], updates)
                         ELSE store[i]],
           scenario |-> <<Updated(getScenario(id)[1], updates)>> ]

\* MemStorage.deleteScenario: the Map after the call and what it returns
deleteScenario(id) ==
    [ store |-> SelectSeq(store, LAMBDA s : s.id # id),
      deleted |-> Entries(id) # {} ]

\* a request with its answer
Response(op, id, request, status, body, message) ==
    << [ op |-> op, id |-> id, request |-> request, status |-> status,
         body |-> body, message |-> message ] >>

InitServer ==
    /\ ComponentInit
    /\ ServerInit
    /\ inputs \in ComponentInputs
    /\ pc = "idle"
    /\ clock = FirstYear
    /\ startYear = 0
    /\ year = 0
    /\ age = 0
    /\ currentInvestments = 0
    /\ fireAchieved = FALSE
    /\ achievableAge = 0
    /\ projectionData = <<>>
    /\ result = <<>>
    /\ unrounded = <<>>
    /\ assigned = 0
    /\ exact = TRUE
    /\ ref = <<>>

\* app.get("/api/scenarios")
GetScenarios ==
    /\ response' = Response("GET", 0, <<>>, 200, getAllScenarios, "")
    /\ UNCHANGED <<store, uuids, removed>>
    /\ UNCHANGED <<engineVars, componentVars>>

\* app.get("/api/scenarios/:id")
GetScenario(id) ==
    /\ LET scenario == getScenario(id)
       IN  response' =
               IF scenario = <<>>
               THEN Response("GET", id, <<>>, 404, <<>>, "Scenario not found")
               ELSE Response("GET", id, <<>>, 200, scenario, "")
    /\ UNCHANGED <<store, uuids, removed>>
    /\ UNCHANGED <<engineVars, componentVars>>

\* app.post("/api/scenarios")
PostScenario(body) ==
    /\ randomUUID <= MaxScenarios
    /\ LET validatedData == Parse(body, FALSE)
       IN  IF validatedData = <<>>
           THEN /\ response' = Response("POST", 0, <<body>>, 400, <<>>,
                                        "Invalid input data")
                /\ UNCHANGED <<store, uuids>>
           ELSE LET scenario == createScenario(validatedData[1])
                IN  /\ store' = Append(store, scenario)
                    /\ uuids' = uuids + 1
                    /\ response' = Response("POST", 0, <<body>>, 201,
                                            <<scenario>>, "")
    /\ UNCHANGED removed
    /\ UNCHANGED <<engineVars, componentVars>>

\* app.patch("/api/scenarios/:id")
PatchScenario(id, body) ==
    /\ LET validatedData == Parse(body, TRUE)
       IN  IF validatedData = <<>>
           THEN /\ response' = Response("PATCH", id, <<body>>, 400, <<>>,
                                        "Invalid input data")
                /\ UNCHANGED store
           ELSE LET update == updateScenario(id, validatedData[1])
                IN  /\ store' = update.store
                    /\ response' =
                           IF update.scenario = <<>>
                           THEN Response("PATCH", id, <<body>>, 404, <<>>,
                                         "Scenario not found")
                           ELSE Response("PATCH", id, <<body>>, 200,
                                         update.scenario, "")
    /\ UNCHANGED <<uuids, removed>>
    /\ UNCHANGED <<engineVars, componentVars>>

\* app.delete("/api/scenarios/:id")
DeleteScenario(id) ==
    /\ LET delete == deleteScenario(id)
       IN  /\ store' = delete.store
           /\ response' =
                  IF delete.deleted
                  THEN Response("DELETE", id, <<>>, 204, <<>>, "")
                  ELSE Response("DELETE", id, <<>>, 404, <<>>,
                                "Scenario not found")
           /\ removed' = IF delete.deleted THEN removed \cup {id} ELSE removed
    /\ UNCHANGED uuids
    /\ UNCHANGED <<engineVars, componentVars>>

NextServer ==
    \/ GetScenarios
    \/ \E id \in RequestIds : GetScenario(id)
    \/ \E body \in PostBodies : PostScenario(body)
    \/ \E id \in RequestIds : \E body \in PatchBodies : PatchScenario(id, body)
    \/ \E id \in RequestIds : DeleteScenario(id)
    \/ NewYear

\* the server, from its start on
SpecServer == InitServer /\ [][NextServer]_vars

----------------------------------------------------------------------------
(* Properties *)

Rows == DOMAIN projectionData

Min(a, b) == IF a <= b THEN a ELSE b

\* the rows whose status is fire
FireRows == { k \in Rows : projectionData[k].status = "fire" }

\* the rows whose unrounded balance meets the unrounded target of the year
MetRows == { k \in Rows : unrounded[k].investmentValue >= unrounded[k].fireTarget }

\* the rows whose rounded balance meets the rounded target of the year
RoundedMetRows ==
    { k \in Rows : projectionData[k].investmentValue >= projectionData[k].fireTarget }

First(S) == CHOOSE k \in S : \A j \in S : k <= j

\* C1: in projectionData, once a row has status fire every later row has
\* status fire, also when a later year's balance is below that year's target.
C1_MonotonicFireStatus ==
    \A i \in Rows : \A j \in Rows :
        (i < j /\ projectionData[i].status = "fire") => projectionData[j].status = "fire"

\* C1 witness: a fire row followed by a row whose balance is below its target
C1_Witness ==
    \E i \in Rows : \E j \in Rows :
        /\ i < j
        /\ projectionData[i].status = "fire"
        /\ unrounded[j].investmentValue < unrounded[j].fireTarget
        /\ projectionData[j].status = "fire"

\* C2: projectionData has at most 40 rows, row k (0-based) has age
\* currentAge + k, and the last row's age is at most 100.
C2_HorizonBound ==
    /\ Len(projectionData) <= 40
    /\ \A k \in Rows : projectionData[k].age = inputs.currentAge + (k - 1)
    /\ \A k \in Rows : projectionData[k].age <= 100

\* C2 witness: a finished run of forty rows that ends at age 100
C2_Witness ==
    /\ pc = "done"
    /\ Len(projectionData) = 40
    /\ projectionData[40].age = 100

C5_AsStated ==
    (pc = "done" /\ fireAchieved) =>
        achievableAge = projectionData[First(RoundedMetRows)].age

\* C5 (amended): when FIRE is reached, achievableAge is the smallest age
\* whose unrounded balance is >= that year's unrounded target; the row of
\* that age has rounded balance >= rounded target, but an earlier row may
\* have it too, so achievableAge is not always the smallest such age.
C5_SmallestUnroundedAge ==
    (pc = "done" /\ fireAchieved) =>
        /\ MetRows # {}
        /\ achievableAge = projectionData[First(MetRows)].age
        /\ First(MetRows) \in RoundedMetRows
        /\ First(RoundedMetRows) <= First(MetRows)

\* C5 witness: FIRE is reached, and an earlier row already has rounded
\* balance >= rounded target
C5_Witness ==
    /\ pc = "done"
    /\ fireAchieved
    /\ First(RoundedMetRows) < First(MetRows)

\* the number of rows of a full run from currentAge
FullHorizon(currentAge) ==
    IF currentAge > 100 THEN 0 ELSE Min(40, 101 - currentAge)

AgreeExcept(a, b, fields) == \A f \in (DOMAIN a) \ fields : a[f] = b[f]

\* a second run has returned, in the calendar year of the reference run
SecondRunDone == pc = "done" /\ ref # <<>> /\ startYear = ref[1].startYear

\* C7: two runs in the same calendar year whose inputs differ only in
\* monthlyContributions and adjustContributionsForInflation return the same
\* result in salaryPercent mode, and two runs whose inputs differ only in
\* annualSalary, salaryContributionPercent and salaryAnnualRaisePercent
\* return the same result in fixed mode.
C7_ContributionModeExclusivity ==
    SecondRunDone =>
        /\ ( /\ inputs.contributionMode = "salaryPercent"
             /\ AgreeExcept(inputs, ref[1].inputs,
                            {"monthlyContributions", "adjustContributionsForInflation"}) )
           => result[1] = ref[1].result
        /\ ( /\ inputs.contributionMode = "fixed"
             /\ AgreeExcept(inputs, ref[1].inputs,
                            {"annualSalary", "salaryContributionPercent",
                             "salaryAnnualRaisePercent"}) )
           => result[1] = ref[1].result

\* C7 witness: a second salaryPercent run of several years, with other
\* monthlyContributions and another adjustContributionsForInflation, under
\* inflation, has returned what the first returned
C7_Witness ==
    /\ SecondRunDone
    /\ inputs.contributionMode = "salaryPercent"
    /\ inputs.monthlyContributions # ref[1].inputs.monthlyContributions
    /\ inputs.adjustContributionsForInflation # ref[1].inputs.adjustContributionsForInflation
    /\ inputs.inflationRate > 0
    /\ Len(projectionData) >= 2
    /\ result[1] = ref[1].result

\* C8: two calls with identical inputs in the same calendar year return
\* identical results, summary and rows: nothing an earlier call left behind
\* influences a later call.
C8_Determinism ==
    (SecondRunDone /\ inputs = ref[1].inputs) => result[1] = ref[1].result

\* C8 witness: a second call with the inputs of a first call that reached
\* FIRE has returned the same result
C8_Witness ==
    /\ SecondRunDone
    /\ inputs = ref[1].inputs
    /\ FireRows # {}
    /\ Len(projectionData) >= 2
    /\ result[1] = ref[1].result

\* v rounded to the nearest multiple of unit, ties away from zero
HalfAwayFromZero(v, unit) ==
    IF v >= 0 THEN ((2 * v + unit) \div (2 * unit)) * unit
              ELSE -(((2 * (-v) + unit) \div (2 * unit)) * unit)

\* r is the multiple of unit nearest to v, the larger one on a tie
NearestTiesUp(r, v, unit) ==
    /\ r % unit = 0
    /\ 2 * r - unit <= 2 * v
    /\ 2 * v < 2 * r + unit

Thousand == RoundTo * Ticks

CurrencyFields ==
    {"investmentValue", "annualContribution", "potentialWithdrawalNominal",
     "potentialWithdrawalReal", "fireTarget", "investmentGrowth"}

\* C9 (as stated): every currency figure of the result is the unrounded
\* value rounded to the nearest 1000 with ties away from zero, negative
\* values included.
C9_AsStated ==
    /\ \A k \in Rows :
          /\ \A f \in CurrencyFields :
                projectionData[k][f] = HalfAwayFromZero(unrounded[k][f], Thousand)
          /\ projectionData[k].windfallAmount # <<>> =>
                projectionData[k].windfallAmount[1] =
                    HalfAwayFromZero(unrounded[k].windfallAmount, Thousand)
    /\ pc = "done" =>
          /\ result[1].realFireNumber = HalfAwayFromZero(realFireNumber, Thousand)
          /\ result[1].nominalFireNumber = HalfAwayFromZero(nominalFireNumber, Thousand)

\* C9 (amended): every currency figure of the result is a multiple of 1000,
\* the one nearest to the unrounded value, with a tie rounded up (towards
\* plus infinity): ties of positive values go away from zero, ties of
\* negative values go towards zero (-500 gives 0, -1500 gives -1000).
C9_NearestThousandTiesUp ==
    /\ \A k \in Rows :
          /\ \A f \in CurrencyFields :
                NearestTiesUp(projectionData[k][f], unrounded[k][f], Thousand)
          /\ projectionData[k].windfallAmount # <<>> =>
                NearestTiesUp(projectionData[k].windfallAmount[1],
                              unrounded[k].windfallAmount, Thousand)
          /\ projectionData[k].windfallAmount = <<>> <=> unrounded[k].windfallAmount <= 0
    /\ pc = "done" =>
          /\ NearestTiesUp(result[1].realFireNumber, realFireNumber, Thousand)
          /\ NearestTiesUp(result[1].nominalFireNumber, nominalFireNumber, Thousand)

\* C9 witness: a row whose unrounded investmentGrowth is negative and lies
\* exactly between two multiples of 1000, reported as the larger of the two
C9_Witness ==
    \E k \in Rows :
        /\ unrounded[k].investmentGrowth < 0
        /\ unrounded[k].investmentGrowth % Thousand = Thousand \div 2
        /\ projectionData[k].investmentGrowth > unrounded[k].investmentGrowth

\* the currency figures the run has produced so far
Produced ==
    UNION { {projectionData[k][f] : f \in CurrencyFields} : k \in Rows }
    \cup UNION { {projectionData[k].windfallAmount[i] :
                     i \in DOMAIN projectionData[k].windfallAmount} : k \in Rows }
    \cup (IF pc = "done"
          THEN {result[1].realFireNumber, result[1].nominalFireNumber}
          ELSE {})

\* C10: the rounding used for output, v -> round(v / 1000) * 1000, is
\* idempotent: applied to a value it produced it returns that value.
C10_RoundingIdempotent ==
    /\ \A v \in Produced : Round(v) = v
    /\ \A k \in Rows : \A f \in CurrencyFields :
          Round(Round(unrounded[k][f])) = Round(unrounded[k][f])

\* C10 witness: the run produced a negative figure and a positive figure
\* that differ from the unrounded values they were rounded from
C10_Witness ==
    \E k \in Rows :
        /\ projectionData[k].investmentGrowth < 0
        /\ projectionData[k].investmentGrowth # unrounded[k].investmentGrowth
        /\ projectionData[k].investmentValue > 0
        /\ projectionData[k].investmentValue # unrounded[k].investmentValue

\* the call is under way or has returned: the rows belong to the inputs
InCall == pc \in {"loop", "done"}

\* the unrounded balance the year of row k starts from
StartingBalance(k) ==
    IF k = 1 THEN Dollars(inputs.startingInvestments)
             ELSE unrounded[k - 1].investmentValue

\* C11: rounding never feeds back into the simulation: the balance
\* carried from year to year, the FIRE test, the withdrawal estimates and
\* nominalFireNumber are computed from unrounded values; the rounded
\* investmentValue of a row is not what the following year starts from.
C11_RoundingNeverFeedsBack ==
    InCall =>
        /\ \A k \in Rows :
              /\ unrounded[k].preGrowthValue =
                     StartingBalance(k) + unrounded[k].annualContribution
                                        + unrounded[k].windfallAmount
              /\ projectionData[k].investmentValue = Round(unrounded[k].investmentValue)
              /\ (projectionData[k].status = "fire") =
                     (\E j \in 1..k :
                         unrounded[j].investmentValue >= unrounded[j].fireTarget)
              /\ unrounded[k].potentialWithdrawalNominal * 100 =
                     unrounded[k].investmentValue * inputs.withdrawalRate
              /\ unrounded[k].potentialWithdrawalReal
                     * IntPow(OnePlus(inputs.inflationRate)[1], k - 1) =
                  unrounded[k].potentialWithdrawalNominal
                     * IntPow(OnePlus(inputs.inflationRate)[2], k - 1)
        /\ currentInvestments = StartingBalance(Len(projectionData) + 1)
        /\ pc = "done" =>
              result[1].nominalFireNumber =
                 Round(TimesPow(realFireNumber, OnePlus(inputs.inflationRate),
                                result[1].yearsToRetirement))

\* C11 witness: a year started from a balance that its row shows rounded
\* to another value, and the rounded figures of an earlier row would have
\* met the target while the unrounded ones did not
C11_Witness ==
    /\ pc = "done"
    /\ \E k \in Rows :
          /\ k > 1
          /\ projectionData[k - 1].investmentValue # unrounded[k - 1].investmentValue
          /\ unrounded[k].preGrowthValue # projectionData[k - 1].investmentValue
                 + unrounded[k].annualContribution + unrounded[k].windfallAmount
          /\ projectionData[k - 1].investmentValue >= projectionData[k - 1].fireTarget
          /\ projectionData[k - 1].status # "fire"
    /\ result[1].nominalFireNumber # result[1].realFireNumber

WindfallsAt(a) ==
    { i \in DOMAIN inputs.windfalls : inputs.windfalls[i].ageReceived = a }

C14_WindfallRowStatus ==
    InCall =>
        \A k \in Rows :
            LET at == WindfallsAt(projectionData[k].age)
            IN  at # {} =>
                   /\ projectionData[k].status =
                          IF \E j \in MetRows : j <= k THEN "fire" ELSE "windfall"
                   /\ projectionData[k].windfallAmount =
                          <<Round(Dollars(inputs.windfalls[First(at)].amount))>>

\* C14 witness: a windfall is received in a year after the one in which
\* FIRE was achieved, in a row whose own balance is below the target
C14_Witness ==
    /\ pc = "done"
    /\ \E k \in Rows :
          /\ WindfallsAt(projectionData[k].age) # {}
          /\ k > First(MetRows \cup {k})
          /\ k \notin MetRows
          /\ projectionData[k].status = "fire"
          /\ projectionData[k].windfallAmount # <<>>

\* the windfalls applied in the rows 1..k
RECURSIVE WindfallsUpTo(_)
WindfallsUpTo(k) ==
    IF k = 0 THEN 0 ELSE unrounded[k].windfallAmount + WindfallsUpTo(k - 1)

\* monthlyContributions = 0, startingInvestments = 0 and annualReturn = 0
ZeroContribution ==
    /\ inputs.monthlyContributions = 0
    /\ inputs.startingInvestments = 0
    /\ inputs.annualReturn = 0

\* C15 (as stated): with monthlyContributions = 0, startingInvestments = 0
\* and annualReturn = 0 the balance is 0 in every simulated year except for
\* windfalls, and achievableAge is currentAge + 39, or 100 when the age
\* bound is reached first.
C15_AsStated ==
    pc = "done" /\ ZeroContribution =>
        /\ \A k \in Rows : unrounded[k].investmentValue = WindfallsUpTo(k)
        /\ result[1].achievableAge = Min(inputs.currentAge + MaxYears - 1, MaxAge)

\* C15: in fixed mode with monthlyContributions = 0, startingInvestments = 0
\* and annualReturn = 0 the balance of every simulated year is the sum of
\* the windfalls applied so far, 0 without windfalls; when no windfall
\* brings the balance to the target and currentAge <= 100, achievableAge is
\* currentAge + 39, or 100 when the age bound is reached first.
C15_ZeroContributionProjection ==
    pc = "done" /\ ZeroContribution /\ inputs.contributionMode = "fixed" =>
        /\ \A k \in Rows : unrounded[k].investmentValue = WindfallsUpTo(k)
        /\ MetRows = {} /\ inputs.currentAge <= MaxAge =>
              result[1].achievableAge = Min(inputs.currentAge + MaxYears - 1, MaxAge)

\* C15 witness: a run of forty years in fixed mode without contributions,
\* whose balance is a windfall that does not reach the target
C15_Witness ==
    /\ pc = "done"
    /\ ZeroContribution
    /\ inputs.contributionMode = "fixed"
    /\ Len(projectionData) = MaxYears
    /\ MetRows = {}
    /\ \E k \in Rows : unrounded[k].windfallAmount > 0 /\ k < Len(projectionData)
    /\ result[1].achievableAge = inputs.currentAge + MaxYears - 1

\* Scenario A of the specification: annualExpenses 200000, withdrawalRate 4,
\* monthlyContributions 1200
ScenarioA ==
    [ annualExpenses |-> 200000, withdrawalRate |-> 4, monthlyContributions |-> 1200 ]

\* C16: the returned realFireNumber is annualExpenses / (withdrawalRate /
\* 100) rounded to the nearest 1000; in fixed mode without inflation
\* adjustment every row's annualContribution is monthlyContributions * 12
\* rounded to the nearest 1000.  For Scenario A these are 5000000 and 14000.
C16_TargetAndFixedContribution ==
    /\ pc = "done" =>
          \E v \in {(Dollars(inputs.annualExpenses) * 100) \div inputs.withdrawalRate} :
              /\ v * inputs.withdrawalRate = Dollars(inputs.annualExpenses) * 100
              /\ NearestTiesUp(result[1].realFireNumber, v, Thousand)
    /\ InCall /\ inputs.contributionMode = "fixed"
              /\ ~inputs.adjustContributionsForInflation =>
          \A k \in Rows :
              NearestTiesUp(projectionData[k].annualContribution,
                            Dollars(inputs.monthlyContributions) * 12, Thousand)
    /\ LET f == Percent(ScenarioA.withdrawalRate)
       IN  /\ (Dollars(ScenarioA.annualExpenses) * f[2]) % f[1] = 0
           /\ Round((Dollars(ScenarioA.annualExpenses) * f[2]) \div f[1])
                 = Dollars(5000000)
    /\ Round(Dollars(ScenarioA.monthlyContributions) * 12) = Dollars(14000)

\* C16 witness: a run in fixed mode without inflation adjustment, at an
\* inflation of 100 percent, whose rows show the contribution 1500 as 2000
\* and whose result shows a target that is not a multiple of 1000 rounded
C16_Witness ==
    /\ pc = "done"
    /\ inputs.contributionMode = "fixed"
    /\ ~inputs.adjustContributionsForInflation
    /\ inputs.monthlyContributions > 0
    /\ inputs.inflationRate > 0
    /\ Len(projectionData) > 1
    /\ \A k \in Rows :
          /\ projectionData[k].annualContribution # unrounded[k].annualContribution
          /\ projectionData[k].annualContribution > 0
    /\ result[1].realFireNumber * inputs.withdrawalRate
          # Dollars(inputs.annualExpenses) * 100

C19_InputsUnchanged ==
    [][(pc = "loop" \/ pc' = "loop") => inputs' = inputs]_vars

\* C19 witness: a call has returned that applied a windfall of a list of
\* two, and the list still holds both
C19_Witness ==
    /\ pc = "done"
    /\ Len(inputs.windfalls) = 2
    /\ \E k \in Rows :
          /\ unrounded[k].windfallAmount > 0
          /\ \E i \in DOMAIN inputs.windfalls :
                /\ inputs.windfalls[i].ageReceived = projectionData[k].age
                /\ Dollars(inputs.windfalls[i].amount) = unrounded[k].windfallAmount

\* C20: the calendar year is read once per call: row k (from 0) has year =
\* startYear + k, so that year - age is the constant startYear - currentAge
\* in every row of a result.
C20_CalendarYearReadOnce ==
    InCall =>
        \A k \in Rows :
            /\ projectionData[k].year = startYear + (k - 1)
            /\ projectionData[k].age = inputs.currentAge + (k - 1)
            /\ projectionData[k].year - projectionData[k].age =
                   startYear - inputs.currentAge

\* C20 witness: a new calendar year began during the call, after its first
\* row and before its last
C20_Witness ==
    /\ pc = "loop"
    /\ LoopTest
    /\ Len(projectionData) > 1
    /\ clock # startYear
    /\ projectionData[Len(projectionData)].year # clock + Len(projectionData) - 1

\* the rows whose unrounded real withdrawal meets the annual expenses
RealWithdrawalRows ==
    { k \in Rows : unrounded[k].potentialWithdrawalReal >= Dollars(inputs.annualExpenses) }

TotalAdded(k) == unrounded[k].preGrowthValue - StartingBalance(k)

RECURSIVE Split(_)
Split(line) ==
    IF \A i \in DOMAIN line : line[i] # ","
    THEN <<line>>
    ELSE LET c == CHOOSE i \in DOMAIN line :
                     line[i] = "," /\ \A j \in 1..(i - 1) : line[j] # ","
         IN  <<SubSeq(line, 1, c - 1)>> \o Split(SubSeq(line, c + 1, Len(line)))

DigitValue(ch) == (CHOOSE d \in DOMAIN DigitChars : DigitChars[d] = ch) - 1

\* the number a cell of digits, with or without a sign, reads as
RECURSIVE ParseDigits(_)
ParseDigits(cell) ==
    IF Len(cell) = 0 THEN 0
    ELSE 10 * ParseDigits(SubSeq(cell, 1, Len(cell) - 1)) + DigitValue(cell[Len(cell)])

ParseNumber(cell) ==
    IF cell[1] = "-" THEN -ParseDigits(Tail(cell)) ELSE ParseDigits(cell)

\* the data lines of the exported file: the lines after the headers
DataLines == SubSeq(csv[1], Len(CsvHeaders) + 1, Len(csv[1]))

\* C23: the CSV export has one data line per projectionData row, in the
\* same order, with the columns age, calendar year, balance, contribution,
\* nominal withdrawal, real withdrawal, growth, target and status, each the
\* engine's rounded value of the row, unchanged.
C23_CsvExport ==
    csv # <<>> =>
        /\ Len(DataLines) = Len(projectionData)
        /\ Split(csv[1][Len(CsvHeaders)]) = [i \in DOMAIN CsvColumns |-> <<CsvColumns[i]>>]
        /\ \A k \in Rows :
              LET cells == Split(DataLines[k])
                  row == projectionData[k]
              IN  /\ Len(cells) = 9
                  /\ ParseNumber(cells[1]) = row.age
                  /\ ParseNumber(cells[2]) = row.year
                  /\ Dollars(ParseNumber(cells[3])) = row.investmentValue
                  /\ Dollars(ParseNumber(cells[4])) = row.annualContribution
                  /\ Dollars(ParseNumber(cells[5])) = row.potentialWithdrawalNominal
                  /\ Dollars(ParseNumber(cells[6])) = row.potentialWithdrawalReal
                  /\ Dollars(ParseNumber(cells[7])) = row.investmentGrowth
                  /\ Dollars(ParseNumber(cells[8])) = row.fireTarget
                  /\ cells[9] = <<row.status>>

\* C23 witness: a projection of three rows was exported, with a negative
\* growth and with rows whose rounded figures differ from the unrounded ones
C23_Witness ==
    /\ csv # <<>>
    /\ Len(projectionData) = 3
    /\ \E k \in Rows :
          /\ projectionData[k].investmentGrowth < 0
          /\ projectionData[k].investmentGrowth # projectionData[k].fireTarget
          /\ projectionData[k].investmentValue # unrounded[k].investmentValue
    /\ \E j \in Rows : \E k \in Rows : projectionData[j].status # projectionData[k].status

\* the scenarios saved in this session, in memory or in localStorage
SavedScenarios ==
    { sc \in {scenarios[i] : i \in DOMAIN scenarios}
              \cup {getScenarios[i] : i \in DOMAIN getScenarios} :
        sc.id \in DOMAIN shown }

\* C24: save then load is a round trip: loading a stored scenario, after
\* any number of other input edits, sets the thirteen input fields to the
\* values they had when it was saved, so that the projection computed again
\* in the same calendar year is the one shown at the save.
C24_SaveLoadRoundTrip ==
    \A sc \in SavedScenarios :
        /\ DOMAIN LoadedInputs(sc) = InputFields
        /\ \A f \in InputFields : LoadedInputs(sc)[f] = shown[sc.id].inputs[f]
        /\ pc = "done" /\ inputs = LoadedInputs(sc)
                       /\ startYear = shown[sc.id].startYear =>
              result[1] = shown[sc.id].result

\* C24 witness: a scenario was saved, the inputs were edited and another
\* scenario saved, the first was loaded and its projection computed again
C24_Witness ==
    /\ pc = "done"
    /\ toast = <<Toast("Loaded scenario", "default")>>
    /\ \E sc \in SavedScenarios : \E other \in SavedScenarios :
          /\ sc.id < other.id
          /\ shown[other.id].result # shown[sc.id].result
          /\ inputs = shown[sc.id].inputs
          /\ result[1] = shown[sc.id].result

\* C25: after the component has loaded the stored scenarios, whatever
\* saves and deletes follow, the scenarios list in memory holds exactly the
\* scenarios stored under the localStorage key, in the same order.
C25_ListMatchesStorage ==
    mounted => scenarios = getScenarios

\* C25 witness: two scenarios were saved after a stored one was loaded at
\* the start, and one of the three was deleted
C25_Witness ==
    /\ mounted
    /\ issued = 2
    /\ Len(scenarios) = 2
    /\ toast = <<Toast("Scenario deleted successfully!", "default")>>
    /\ scenarios[1].id < scenarios[2].id
    /\ localStorage # <<>>

FailureToasts ==
    { <<Toast("Failed to save scenario", "destructive")>>,
      <<Toast("Failed to delete scenario", "destructive")>> }

SuccessToasts ==
    { <<Toast("Scenario saved successfully!", "default")>>,
      <<Toast("Scenario deleted successfully!", "default")>> }

\* a save or a delete has just run: it set the toast or drew an identifier
SaveOrDeleteStep ==
    \/ issued' # issued
    \/ toast' # toast /\ toast' \in FailureToasts \cup SuccessToasts

\* C26: when the localStorage write of a save or a delete throws, the
\* scenarios list in memory is left unchanged and the failure is reported;
\* isLoading is false after every save or delete, successful or not.
C26_FailedWriteLeavesList ==
    [][ /\ SaveOrDeleteStep => isLoading' = FALSE
        /\ SaveOrDeleteStep /\ localStorage' = localStorage =>
              /\ scenarios' = scenarios
              /\ toast' \in FailureToasts
        /\ SaveOrDeleteStep /\ localStorage' # localStorage =>
              toast' \in SuccessToasts
        /\ mounted /\ scenarios' # scenarios => localStorage' # localStorage ]_vars

\* C26 witness: a save has failed after an earlier one succeeded
C26_Witness ==
    /\ toast = <<Toast("Failed to save scenario", "destructive")>>
    /\ issued = 2
    /\ \E i \in DOMAIN scenarios : scenarios[i].id = 1
    /\ \A i \in DOMAIN scenarios : scenarios[i].id # 2
    /\ ~isLoading

\* C27: whenever projectionData is non-empty, nominalFireNumber equals the
\* fireTarget of the row whose age is achievableAge, whether FIRE was
\* achieved or not.
C27_NominalIsTargetAtAchievableAge ==
    pc = "done" /\ projectionData # <<>> =>
        /\ \E k \in Rows : projectionData[k].age = result[1].achievableAge
        /\ \A k \in Rows :
              projectionData[k].age = result[1].achievableAge =>
                 /\ projectionData[k].fireTarget = result[1].nominalFireNumber
                 /\ k = result[1].yearsToRetirement + 1

\* C27 witness: at an inflation of 100 percent FIRE is achieved in the
\* second of three years, whose rounded target differs from those of the
\* other rows
C27_Witness ==
    /\ pc = "done"
    /\ Len(projectionData) = 3
    /\ inputs.inflationRate = 100
    /\ result[1].achievableAge = projectionData[2].age
    /\ projectionData[2].status = "fire"
    /\ projectionData[2].fireTarget = result[1].nominalFireNumber
    /\ projectionData[1].fireTarget # result[1].nominalFireNumber
    /\ projectionData[3].fireTarget # result[1].nominalFireNumber

\* C28: for every input with currentAge <= 100, achievableAge is the age of
\* some row of projectionData, between currentAge and the last row's age,
\* hence 0 <= yearsToRetirement <= 39.
C28_AchievableAgeInRows ==
    pc = "done" /\ inputs.currentAge <= MaxAge =>
        /\ \E k \in Rows : projectionData[k].age = result[1].achievableAge
        /\ inputs.currentAge <= result[1].achievableAge
        /\ result[1].achievableAge <= projectionData[Len(projectionData)].age
        /\ 0 <= result[1].yearsToRetirement
        /\ result[1].yearsToRetirement <= MaxYears - 1

\* C28 witness: a run from currentAge = 100, whose only row is not fire
C28_Witness ==
    /\ pc = "done"
    /\ inputs.currentAge = MaxAge
    /\ Len(projectionData) = 1
    /\ FireRows = {}
    /\ result[1].achievableAge = MaxAge
    /\ result[1].yearsToRetirement = 0

\* C29: a row with status windfall carries a windfallAmount that is
\* present and greater than zero, and a row carries a windfallAmount only
\* if a windfall is received at the row's age.
C29_AsStated ==
    InCall =>
        \A k \in Rows :
            /\ projectionData[k].status = "windfall" =>
                   /\ projectionData[k].windfallAmount # <<>>
                   /\ projectionData[k].windfallAmount[1] > 0
            /\ projectionData[k].windfallAmount # <<>> =>
                   WindfallsAt(projectionData[k].age) # {}

\* the ids randomUUID has returned
CreatedIds == 1..uuids

\* what holds of every request of the store, whatever it answers to a
\* PATCH: a stored scenario leaves the Map only by a DELETE of its id
\* that is answered 204; GET of a stored id answers 200 with the entry of
\* that id; GET and DELETE of an id whose DELETE was answered 204 answer
\* 404; DELETE of an id that was never created answers 404 and leaves the
\* Map as it was
StoreStep ==
    /\ \A id \in StoredIds \ { store'[i].id : i \in DOMAIN store' } :
           /\ response' # <<>>
           /\ response'[1].op = "DELETE"
           /\ response'[1].id = id
           /\ response'[1].status = 204
    /\ response' # response =>
           LET r == response'[1]
           IN  /\ r.op = "GET" /\ r.id \in StoredIds =>
                      /\ r.status = 200
                      /\ r.body = getScenario(r.id)
                      /\ Len(r.body) = 1
                      /\ r.body[1].id = r.id
               /\ r.op \in {"GET", "DELETE"} /\ r.id \in removed =>
                      r.status = 404
               /\ r.op = "DELETE" /\ r.id \in RequestIds \ CreatedIds =>
                      /\ r.status = 404
                      /\ store' = store

\* every created scenario is stored unless its DELETE was answered 204
CreatedAreStored ==
    /\ StoredIds = CreatedIds \ removed
    /\ \A id \in StoredIds : Cardinality(Entries(id)) = 1

\* C30 (as stated): in the HTTP scenario store, once a scenario has been
\* created, GET by its id returns it until a DELETE of that id succeeds
\* with 204; after that, GET and DELETE of the same id answer 404; a DELETE
\* or PATCH of an id that was never created answers 404 and leaves every
\* stored scenario unchanged.
C30_AsStated ==
    /\ []CreatedAreStored
    /\ [][ /\ StoreStep
           /\ response' # response =>
                  LET r == response'[1]
                  IN  r.op = "PATCH" /\ r.id \in RequestIds \ CreatedIds =>
                         /\ r.status = 404
                         /\ store' = store ]_vars

\* C30 (amended): as C30, but the PATCH of an id that was never created
\* answers 404 only when its body passes the validation of the partial
\* schema; with a body that fails it the answer is 400.  In both cases
\* every stored scenario is unchanged.
C30_StoreLifecycle ==
    /\ []CreatedAreStored
    /\ [][ /\ StoreStep
           /\ response' # response =>
                  LET r == response'[1]
                  IN  r.op = "PATCH" /\ r.id \in RequestIds \ CreatedIds =>
                         /\ r.status =
                                IF Parse(r.request[1], TRUE) = <<>>
                                THEN 400 ELSE 404
                         /\ store' = store ]_vars

\* C30 witness: with one scenario stored and another one deleted, a PATCH
\* with a valid body of the id that was never created was answered 404
C30_Witness ==
    /\ store # <<>>
    /\ removed # {}
    /\ response # <<>>
    /\ response[1].op = "PATCH"
    /\ response[1].id \notin CreatedIds
    /\ Parse(response[1].request[1], TRUE) # <<>>
    /\ response[1].status = 404

====
